---- MODULE Spec2Model ----
(***************************************************************************)
(* Crypto-compare-bot: the candle aggregation pipeline of                  *)
(* data_providers.py (parse_lookback, _fetch_one, _aggregate_same_market,  *)
(* fetch_ohlcv_multi) and the /compare handler of bot.py.                  *)
(*                                                                         *)
(* Floats are exact rationals <<num, den>> with den > 0, kept in lowest    *)
(* terms; NaN is <<0, 0>>.  Rounding of IEEE doubles is not modelled.      *)
(* A DataFrame is [cols |-> set of column names, rows |-> sequence of      *)
(* rows], each row a function on cols \cup {"ts"}; row order is the order  *)
(* of the index.  Only timestamp, close and volume of a candle are kept:   *)
(* open/high/low are never read after line 75 of data_providers.py.        *)
(***************************************************************************)
EXTENDS Integers, Sequences, FiniteSets, TLC

VARIABLES pc,        \* control point of the scenario being run
          token,     \* parse_lookback: the argument s
          lb_ms,     \* parse_lookback: the returned value
          ohlcv,     \* _fetch_one: what the exchange call did / returned
          fetched,   \* _fetch_one: the returned value
          dfs,       \* _aggregate_same_market: the argument dfs
          agg,       \* _aggregate_same_market: the returned frame
          since,     \* fetch_ohlcv_multi: since = now - lookback_ms
          mtypes,    \* fetch_ohlcv_multi: market type of each task, in task order
          status,    \* fetch_ohlcv_multi: each task "running", "done" or "hung"
          results,   \* fetch_ohlcv_multi: the slots asyncio.gather fills
          out,       \* fetch_ohlcv_multi: the returned frame
          tickers,   \* compare: the symbols of the request
          timeframe, \* compare: the timeframe parameter
          k,         \* compare: number of symbols the loop has consumed
          df,        \* compare: the local df of the last iteration
          combined,  \* compare: the dict handed to render_chart
          csv_buf,   \* compare: the symbols whose rows were written to the CSV
          replies,   \* compare: per-request messages sent back, in order
          delivered  \* compare: the photo and the document sent, if any

vars == <<pc, token, lb_ms, ohlcv, fetched, dfs, agg, since, mtypes, status,
          results, out, tickers, timeframe, k, df, combined, csv_buf, replies,
          delivered>>

parseVars   == <<token, lb_ms>>
fetchVars   == <<ohlcv, fetched>>
aggVars     == <<dfs, agg>>
multiVars   == <<mtypes, status, results, out>>
compareVars == <<tickers, timeframe, k, df, combined, csv_buf, replies, delivered>>

(***************************************************************************)
(* Bounds of the model.                                                    *)
(***************************************************************************)
MaxTokenLen == 3   \* longest lookback token
MaxRaw      == 3   \* longest raw candle list of the _fetch_one scenario
MaxSources  == 3   \* most series handed to _aggregate_same_market
MaxTasks    == 3   \* most exchanges (spot + futures) of one fetch_ohlcv_multi
MaxCandles  == 2   \* longest candle list an exchange returns to a task
MaxSymbols  == 2   \* most tickers of one /compare request

Timestamps == {0, 1, 2}

(***************************************************************************)
(* Numbers.                                                                *)
(***************************************************************************)
NaN == <<0, 0>>
IsNaN(x) == x[2] = 0
NotNa(x) == x[2] # 0
Float(n) == <<n, 1>>
Zero == Float(0)

Abs(n) == IF n < 0 THEN -n ELSE n

RECURSIVE GCD(_, _)
GCD(a, b) == IF b = 0 THEN a ELSE GCD(b, a % b)

Norm(n, d) ==
    IF n = 0 THEN <<0, 1>>
    ELSE LET g == GCD(Abs(n), Abs(d))
             s == IF d < 0 THEN -1 ELSE 1
         IN <<(s * n) \div g, (s * d) \div g>>

RAdd(x, y) == IF IsNaN(x) \/ IsNaN(y) THEN NaN
              ELSE Norm(x[1] * y[2] + y[1] * x[2], x[2] * y[2])
RMul(x, y) == IF IsNaN(x) \/ IsNaN(y) THEN NaN
              ELSE Norm(x[1] * y[1], x[2] * y[2])
\* x / y for y # 0 (every division of the code is guarded by a truthiness test)
RDiv(x, y) == IF IsNaN(x) \/ IsNaN(y) THEN NaN
              ELSE Norm(x[1] * y[2], x[2] * y[1])
RLeq(x, y) == x[1] * y[2] <= y[1] * x[2]
RLess(x, y) == x[1] * y[2] < y[1] * x[2]

\* Python ints are unbounded; TLC's are 32 bit.  A Python int is kept as
\* sign and magnitude, the magnitude in two limbs of base 10^5.
Base == 10 ^ 5
Big(sg, hi, lo) == [sign |-> sg, hi |-> hi, lo |-> lo]
BigOfInt(n) == Big(IF n < 0 THEN -1 ELSE 1, Abs(n) \div Base, Abs(n) % Base)
\* b * m for a small m > 0
BigMul(b, m) == LET p == b.lo * m
                IN Big(b.sign, b.hi * m + p \div Base, p % Base)

None == [tag |-> "None"]
Some(v) == [tag |-> "Some", val |-> v]

(***************************************************************************)
(* parse_lookback (data_providers.py 7-22).  A str is a sequence of        *)
(* one-character strings.                                                  *)
(***************************************************************************)
Chars == {"1", "2", "-", " ", "h", "H", "d", "w", "m", "x"}
Whitespace == {" "}
Digits == {"1", "2"}
DigitVal(c) == IF c = "1" THEN 1 ELSE 2
Tokens == UNION {[1..n -> Chars] : n \in 0..MaxTokenLen}

Front(s) == SubSeq(s, 1, Len(s) - 1)                       \* s[:-1]
EndsWith(s, c) == Len(s) > 0 /\ s[Len(s)] = c              \* s.endswith(c)

RECURSIVE LStrip(_)
LStrip(s) == IF Len(s) > 0 /\ Head(s) \in Whitespace THEN LStrip(Tail(s)) ELSE s
RECURSIVE RStrip(_)
RStrip(s) == IF Len(s) > 0 /\ s[Len(s)] \in Whitespace THEN RStrip(Front(s)) ELSE s
Strip(s) == RStrip(LStrip(s))                              \* s.strip()

LowerChar(c) == IF c = "H" THEN "h" ELSE c
Lower(s) == [i \in 1..Len(s) |-> LowerChar(s[i])]          \* s.lower()

RECURSIVE DigitsVal(_)
DigitsVal(s) == IF Len(s) = 0 THEN 0
                ELSE 10 * DigitsVal(Front(s)) + DigitVal(s[Len(s)])

\* int(s): surrounding whitespace dropped, an optional sign, one or more
\* digits; anything else raises ValueError (None here).
PyInt(s) ==
    LET t == Strip(s)
        neg == Len(t) > 0 /\ Head(t) = "-"
        body == IF neg THEN Tail(t) ELSE t
    IN IF Len(body) > 0 /\ \A i \in 1..Len(body) : body[i] \in Digits
       THEN Some(IF neg THEN -DigitsVal(body) ELSE DigitsVal(body))
       ELSE None

\* int(s[:-1]) * a * b * ... evaluated left to right; a ValueError of int()
\* is caught by the except clause of line 21 and gives None.
IntTimes(r, factors) ==
    IF r = None THEN None
    ELSE LET RECURSIVE Prod(_, _)
             Prod(b, i) == IF i > Len(factors) THEN b
                           ELSE Prod(BigMul(b, factors[i]), i + 1)
         IN Some(Prod(BigOfInt(r.val), 1))

NoLowerParseLookback(s0) ==
    LET s == Strip(s0)
    IN IF EndsWith(s, "h") THEN IntTimes(PyInt(Front(s)), <<3600, 1000>>)
       ELSE IF EndsWith(s, "d") THEN IntTimes(PyInt(Front(s)), <<24, 3600, 1000>>)
       ELSE IF EndsWith(s, "w") THEN IntTimes(PyInt(Front(s)), <<7, 24, 3600, 1000>>)
       ELSE IF EndsWith(s, "m") THEN IntTimes(PyInt(Front(s)), <<30, 24, 3600, 1000>>)
       ELSE None

parse_lookback(s0) ==
    LET s == Lower(Strip(s0))
    IN IF EndsWith(s, "h") THEN IntTimes(PyInt(Front(s)), <<3600, 1000>>)
       ELSE IF EndsWith(s, "d") THEN IntTimes(PyInt(Front(s)), <<24, 3600, 1000>>)
       ELSE IF EndsWith(s, "w") THEN IntTimes(PyInt(Front(s)), <<7, 24, 3600, 1000>>)
       ELSE IF EndsWith(s, "m") THEN IntTimes(PyInt(Front(s)), <<30, 24, 3600, 1000>>)
       ELSE None

(***************************************************************************)
(* Frames.                                                                 *)
(***************************************************************************)
Frame(cols, rows) == [cols |-> cols, rows |-> rows]
EmptyFrame == Frame({}, <<>>)                               \* pd.DataFrame()
IsEmpty(f) == f.cols = {} \/ Len(f.rows) = 0                \* df.empty
Index(f) == [i \in 1..Len(f.rows) |-> f.rows[i].ts]         \* df.index
IndexSet(f) == {f.rows[i].ts : i \in 1..Len(f.rows)}
RowAt(f, t) == f.rows[CHOOSE i \in 1..Len(f.rows) : f.rows[i].ts = t]
\* the value a join reads from f at index label t: NaN where f has no row
Cell(f, t, c) == IF t \in IndexSet(f) THEN RowAt(f, t)[c] ELSE NaN

RECURSIVE SortedSeqOf(_)
SortedSeqOf(S) == IF S = {} THEN <<>>
                  ELSE LET m == CHOOSE x \in S : \A y \in S : x <= y
                       IN <<m>> \o SortedSeqOf(S \ {m})

\* df[mask]: the rows at which the boolean mask holds
SelectRows(f, mask) ==
    LET RECURSIVE Sel(_)
        Sel(i) == IF i > Len(f.rows) THEN <<>>
                  ELSE (IF mask[i] THEN <<f.rows[i]>> ELSE <<>>) \o Sel(i + 1)
    IN Frame(f.cols, Sel(1))

\* pd.to_datetime(ms, unit="ms", utc=True): a datetime64[ns] instant
to_datetime(ms) == ms * 1000000

IsMonotonicIncreasing(rows) ==
    \A i \in 1..(Len(rows) - 1) : rows[i].ts <= rows[i + 1].ts

\* df.sort_index(): kind defaults to "quicksort", which pandas documents as
\* not stable, so rows that share an index label may come out in any order;
\* an index that is already monotonic increasing is returned as it is.
SortIndexOutcomes(rows) ==
    IF IsMonotonicIncreasing(rows) THEN {rows}
    ELSE LET n == Len(rows)
             Perms == {p \in [1..n -> 1..n] : \A i, j \in 1..n : i # j => p[i] # p[j]}
         IN {s \in {[i \in 1..n |-> rows[p[i]]] : p \in Perms} :
                IsMonotonicIncreasing(s)}

\* df[~df.index.duplicated(keep="last")]
DropDuplicatedKeepLast(f) ==
    LET duplicated == [i \in 1..Len(f.rows) |->
                          \E j \in (i + 1)..Len(f.rows) : f.rows[j].ts = f.rows[i].ts]
    IN SelectRows(f, [i \in 1..Len(f.rows) |-> ~duplicated[i]])

(***************************************************************************)
(* _fetch_one (data_providers.py 59-79).  b is what the exchange does:     *)
(* kind "unknown_id" (ccxt has no such attribute), "ctor_raises" (the      *)
(* adapter class raises when built), "fetch_raises", "hangs" (fetch_ohlcv  *)
(* never returns) or "rows" with the raw candle list returned.             *)
(***************************************************************************)
Raised == [tag |-> "Exception"]

Candle(t, c, v) == [timestamp |-> t, close |-> c, volume |-> v]

\* lines 75-77 before the sort: the close / volume columns indexed by instant
RawFrame(raw) ==
    Frame({"close", "volume"},
          [i \in 1..Len(raw) |-> [ts |-> to_datetime(raw[i].timestamp),
                                  close |-> raw[i].close,
                                  volume |-> raw[i].volume]])

\* every value _fetch_one may return; the empty set when it never returns
FetchOneReturns(b, market_type) ==
    IF b.kind = "unknown_id" THEN {None}
    ELSE IF b.kind = "ctor_raises" THEN {Raised}
    ELSE IF b.kind = "fetch_raises" THEN {None}
    ELSE IF b.kind = "hangs" THEN {}
    ELSE IF Len(b.rows) = 0 THEN {None}
    ELSE {Some(<<DropDuplicatedKeepLast(Frame({"close", "volume"}, sorted)), market_type>>) :
            sorted \in SortIndexOutcomes(RawFrame(b.rows).rows)}

(***************************************************************************)
(* _aggregate_same_market (data_providers.py 86-96).  The joined frame of  *)
(* lines 87-90 has the columns <price_col>_<i> and <vol_col>_<i> of every  *)
(* input i; Joined gives its index, JoinedCell its cells.                  *)
(***************************************************************************)
\* a.join(b, how="outer"): the union of the two indexes, sorted
OuterJoinIndex(a, b) ==
    SortedSeqOf({a[i] : i \in 1..Len(a)} \cup {b[i] : i \in 1..Len(b)})

RECURSIVE Joined(_, _)
Joined(frames, n) ==
    IF n = 1 THEN Index(frames[1])
    ELSE OuterJoinIndex(Joined(frames, n - 1), Index(frames[n]))

RECURSIVE Insert(_, _)
Insert(x, sorted) ==
    IF Len(sorted) = 0 THEN <<x>>
    ELSE IF RLeq(x, Head(sorted)) THEN <<x>> \o sorted
    ELSE <<Head(sorted)>> \o Insert(x, Tail(sorted))

RECURSIVE SortValues(_)
SortValues(xs) == IF Len(xs) = 0 THEN <<>> ELSE Insert(Head(xs), SortValues(Tail(xs)))

DropNa(xs) == SelectSeq(xs, NotNa)

\* row.median(skipna=True)
Median(xs) ==
    LET v == SortValues(DropNa(xs))
        n == Len(v)
    IN IF n = 0 THEN NaN
       ELSE IF n % 2 = 1 THEN v[(n + 1) \div 2]
       ELSE RDiv(RAdd(v[n \div 2], v[n \div 2 + 1]), Float(2))

\* row.sum(skipna=True)
RECURSIVE Sum(_)
Sum(xs) == IF Len(xs) = 0 THEN Zero
           ELSE IF IsNaN(Head(xs)) THEN Sum(Tail(xs))
           ELSE RAdd(Head(xs), Sum(Tail(xs)))

\* the price is taken from the first input that has one, not from the median
FirstAggregateSameMarket(frames, price_col, vol_col) ==
    LET idx == Joined(frames, Len(frames))
        Closes(t) == [i \in 1..Len(frames) |-> Cell(frames[i], t, price_col)]
        Vols(t) == [i \in 1..Len(frames) |-> Cell(frames[i], t, vol_col)]
        First(xs) == IF Len(DropNa(xs)) = 0 THEN NaN ELSE DropNa(xs)[1]
    IN Frame({price_col, vol_col},
             [j \in 1..Len(idx) |->
                 ("ts" :> idx[j]) @@ (price_col :> First(Closes(idx[j])))
                                  @@ (vol_col :> Sum(Vols(idx[j])))])

\* the price is the mean of the closes present, not their median
MeanAggregateSameMarket(frames, price_col, vol_col) ==
    LET idx == Joined(frames, Len(frames))
        Closes(t) == [i \in 1..Len(frames) |-> Cell(frames[i], t, price_col)]
        Vols(t) == [i \in 1..Len(frames) |-> Cell(frames[i], t, vol_col)]
        Mean(xs) == IF Len(DropNa(xs)) = 0 THEN NaN
                    ELSE RDiv(Sum(xs), Float(Len(DropNa(xs))))
    IN Frame({price_col, vol_col},
             [j \in 1..Len(idx) |->
                 ("ts" :> idx[j]) @@ (price_col :> Mean(Closes(idx[j])))
                                  @@ (vol_col :> Sum(Vols(idx[j])))])

_aggregate_same_market(frames, price_col, vol_col) ==
    LET idx == Joined(frames, Len(frames))
        Closes(t) == [i \in 1..Len(frames) |-> Cell(frames[i], t, price_col)]
        Vols(t) == [i \in 1..Len(frames) |-> Cell(frames[i], t, vol_col)]
    IN Frame({price_col, vol_col},
             [j \in 1..Len(idx) |->
                 ("ts" :> idx[j]) @@ (price_col :> Median(Closes(idx[j])))
                                  @@ (vol_col :> Sum(Vols(idx[j])))])

(***************************************************************************)
(* fetch_ohlcv_multi (data_providers.py 24-57).  results holds, in task    *)
(* order, what each _fetch_one coroutine returned or raised.               *)
(***************************************************************************)
PriceCol(m) == IF m = "spot" THEN "close_spot" ELSE "close_fut"
VolCol(m) == IF m = "spot" THEN "volume_spot" ELSE "volume_fut"

\* asyncio.gather with return_exceptions=False: the first exception of a
\* task is raised out of the await
GatherPropagating(rs) ==
    IF \E i \in 1..Len(rs) : rs[i] = Raised THEN Raised ELSE Some(rs)

\* asyncio.gather with return_exceptions=True (line 36): a task's exception is one
\* of the results
gather(rs) == Some(rs)

\* lines 38-43: the usable results of one market type, renamed
Usable(rs, m) ==
    LET Keep(r) == /\ r # Raised /\ r # None
                   /\ ~IsEmpty(r.val[1])
                   /\ r.val[2] = m
        kept == SelectSeq(rs, Keep)
    IN [i \in 1..Len(kept) |->
           Frame({PriceCol(m), VolCol(m)},
                 [j \in 1..Len(kept[i].val[1].rows) |->
                     LET row == kept[i].val[1].rows[j]
                     IN ("ts" :> row.ts) @@ (PriceCol(m) :> row.close)
                                         @@ (VolCol(m) :> row.volume)])]

\* out.join(fut, how="outer")
OuterJoin(a, b) ==
    LET idx == OuterJoinIndex(Index(a), Index(b))
    IN Frame(a.cols \cup b.cols,
             [j \in 1..Len(idx) |->
                 [c \in {"ts"} \cup a.cols \cup b.cols |->
                     IF c = "ts" THEN idx[j]
                     ELSE IF c \in a.cols THEN Cell(a, idx[j], c)
                     ELSE Cell(b, idx[j], c)]])

\* out[c] = out[c].ffill()
RECURSIVE FfillRows(_, _, _)
FfillRows(rows, c, last) ==
    IF Len(rows) = 0 THEN <<>>
    ELSE LET v == IF IsNaN(Head(rows)[c]) THEN last ELSE Head(rows)[c]
         IN <<[Head(rows) EXCEPT ![c] = v]>> \o FfillRows(Tail(rows), c, v)

Ffill(f, c) == IF c \in f.cols THEN Frame(f.cols, FfillRows(f.rows, c, NaN)) ELSE f

\* out[c] = out[c].fillna(0)
Fillna0(f, c) ==
    IF c \in f.cols
    THEN Frame(f.cols, [j \in 1..Len(f.rows) |->
                           [f.rows[j] EXCEPT ![c] = IF IsNaN(@) THEN Zero ELSE @]])
    ELSE f

\* out.sort_index() on an index without repeated labels
SortIndex(f) ==
    LET idx == SortedSeqOf(IndexSet(f))
    IN Frame(f.cols, [j \in 1..Len(idx) |-> RowAt(f, idx[j])])

\* out[out.index >= start_ts]
Window(f, start_ts) ==
    SelectRows(f, [i \in 1..Len(f.rows) |-> f.rows[i].ts >= start_ts])

\* the rows are cut to the window before the prices are carried forward
TruncateThenFill(f, start) ==
    Fillna0(Fillna0(Ffill(Ffill(Window(SortIndex(f), to_datetime(start)),
                                "close_spot"), "close_fut"),
                    "volume_spot"), "volume_fut")

\* lines 50-56
FillAndTruncate(f, start) ==
    Window(SortIndex(Fillna0(Fillna0(Ffill(Ffill(f, "close_spot"), "close_fut"),
                                     "volume_spot"), "volume_fut")),
           to_datetime(start))

\* lines 37-43: dfs_spot and dfs_fut
Partition(rs) == <<Usable(rs, "spot"), Usable(rs, "futures")>>

\* lines 44-57, given the frames kept for each market type
Assemble(dfs_spot, dfs_fut, start) ==
    LET spot == IF Len(dfs_spot) > 0
                THEN Some(_aggregate_same_market(dfs_spot, "close_spot", "volume_spot"))
                ELSE None
        joined == IF Len(dfs_fut) > 0
                  THEN LET fut == _aggregate_same_market(dfs_fut, "close_fut", "volume_fut")
                       IN Some(IF spot = None THEN fut ELSE OuterJoin(spot.val, fut))
                  ELSE spot
    IN IF joined = None THEN EmptyFrame
       ELSE FillAndTruncate(joined.val, start)

\* lines 37-57, given what gather returned
Combine(rs, start) ==
    LET kept == Partition(rs)
    IN Assemble(kept[1], kept[2], start)

\* what the call returns: a frame, or Raised when the await of line 36 raises
fetch_ohlcv_multi(rs, start) ==
    LET g == gather(rs)
    IN IF g = Raised THEN Raised ELSE Combine(g.val, start)

(***************************************************************************)
(* compare (bot.py 51-93): the post-processing of one symbol's frame.      *)
(***************************************************************************)
supported_timeframes == {"1m", "5m", "15m", "30m", "1h", "4h", "1d"}

IdxCol(c) == IF c = "close_spot" THEN "close_spot_idx" ELSE "close_fut_idx"

\* df[c] = vals
WithColumn(f, c, vals) ==
    Frame(f.cols \cup {c}, [j \in 1..Len(f.rows) |-> (c :> vals[j]) @@ f.rows[j]])

\* df[c].notna().any()
AnyNotNa(f, c) == \E j \in 1..Len(f.rows) : NotNa(f.rows[j][c])
\* df[c].dropna().iloc[0]
FirstNotNa(f, c) ==
    f.rows[CHOOSE j \in 1..Len(f.rows) :
              /\ NotNa(f.rows[j][c])
              /\ \A i \in 1..(j - 1) : IsNaN(f.rows[i][c])][c]
\* df[c].dropna().iloc[-1]
LastNotNa(f, c) ==
    f.rows[CHOOSE j \in 1..Len(f.rows) :
              /\ NotNa(f.rows[j][c])
              /\ \A i \in (j + 1)..Len(f.rows) : IsNaN(f.rows[i][c])][c]

\* the index is based on the last close instead of the first
AddIndexOnLast(f, c) ==
    IF c \in f.cols /\ AnyNotNa(f, c)
    THEN LET first == LastNotNa(f, c)
             Idx(row) == IF first # Zero
                         THEN RMul(RDiv(row[c], first), Float(100)) ELSE NaN
         IN WithColumn(f, IdxCol(c), [j \in 1..Len(f.rows) |-> Idx(f.rows[j])])
    ELSE f

\* lines 77-78 and 79-80: df[c + "_idx"] = df[c] / first * 100 if first else nan
AddIndex(f, c) ==
    IF c \in f.cols /\ AnyNotNa(f, c)
    THEN LET first == FirstNotNa(f, c)
             Idx(row) == IF first # Zero
                         THEN RMul(RDiv(row[c], first), Float(100)) ELSE NaN
         IN WithColumn(f, IdxCol(c), [j \in 1..Len(f.rows) |-> Idx(f.rows[j])])
    ELSE f

\* line 81: df.get(c, 0) is the int 0 when the frame has no column c, and an
\* int has no fillna: AttributeError
VolumeTotalFaults(f) == "volume_spot" \notin f.cols \/ "volume_fut" \notin f.cols

VolumeTotal(f) ==
    LET Fill(x) == IF IsNaN(x) THEN Zero ELSE x
        Total(row) == RAdd(Fill(row["volume_spot"]), Fill(row["volume_fut"]))
    IN WithColumn(f, "volume_total", [j \in 1..Len(f.rows) |-> Total(f.rows[j])])

\* lines 76-80
Indexed(f) == AddIndex(AddIndex(SortIndex(f), "close_spot"), "close_fut")

\* render_chart draws every symbol of combined whose frame has rows
render_chart(cmb) == {sym \in DOMAIN cmb : ~IsEmpty(cmb[sym])}

Idle == [kind |-> "idle"]

ParseIdle == token = <<>> /\ lb_ms = None
FetchIdle == ohlcv = Idle /\ fetched = None
AggIdle == dfs = <<>> /\ agg = None
MultiIdle == mtypes = <<>> /\ status = <<>> /\ results = <<>> /\ out = None
CompareIdle == /\ tickers = <<>> /\ timeframe = "" /\ k = 0 /\ df = None
               /\ combined = <<>> /\ csv_buf = <<>> /\ replies = <<>>
               /\ delivered = None

InitParse ==
    /\ pc = "parse_called"
    /\ token \in Tokens
    /\ lb_ms = None
    /\ FetchIdle /\ AggIdle /\ MultiIdle /\ CompareIdle /\ since = 0

ParseLookback ==
    /\ pc = "parse_called"
    /\ lb_ms' = parse_lookback(token)
    /\ pc' = "parse_returned"
    /\ UNCHANGED <<token, fetchVars, aggVars, since, multiVars, compareVars>>

NextParse == ParseLookback
SpecParse == InitParse /\ [][NextParse]_vars

\* the decimal value of the digits t[p..e], place by place
RECURSIVE PlaceSum(_, _, _)
PlaceSum(t, p, e) == IF p > e THEN 0
                     ELSE DigitVal(t[p]) * 10 ^ (e - p) + PlaceSum(t, p + 1, e)

SuffixHours(c) == IF c \in {"h", "H"} THEN 1
                  ELSE IF c = "d" THEN 24
                  ELSE IF c = "w" THEN 7 * 24
                  ELSE 30 * 24
Suffixes == {"h", "d", "w", "m"}

\* t[a..b] reads as an integer literal: an optional "-", one or more digits
\* ending at e, then only spaces.
LiteralValues(t, a, b) ==
    {(IF t[a] = "-" THEN -1 ELSE 1) *
        PlaceSum(t, IF t[a] = "-" THEN a + 1 ELSE a, e) :
     e \in {e \in a..b : /\ \A i \in (IF t[a] = "-" THEN a + 1 ELSE a)..e : t[i] \in Digits
                         /\ (t[a] = "-" => e > a)
                         /\ \A i \in (e + 1)..b : t[i] \in Whitespace}}

\* n milliseconds-hours as the Python int n * hours * 3,600,000
MsOfHours(n, hours) == Big(IF n < 0 THEN -1 ELSE 1, Abs(n) * hours * 36, 0)

\* The readings <<n, hours>> of a token: spaces, an integer literal, a suffix
\* letter in either case, spaces.
Readings(t) ==
    UNION {{<<n, SuffixHours(t[b])>> : n \in LiteralValues(t, a, b - 1)} :
           <<a, b>> \in {<<a, b>> \in (1..Len(t)) \X (1..Len(t)) :
                            /\ a < b
                            /\ \A i \in 1..(a - 1) : t[i] \in Whitespace
                            /\ \A i \in (b + 1)..Len(t) : t[i] \in Whitespace
                            /\ t[a] \notin Whitespace
                            /\ LowerChar(t[b]) \in Suffixes}}

\* The readings of a token taken literally: an integer immediately followed
\* by a lower-case suffix, nothing around it.
StrictReadings(t) ==
    IF Len(t) >= 2 /\ t[Len(t)] \in Suffixes /\ t[1] \notin Whitespace
                   /\ t[Len(t) - 1] \notin Whitespace
    THEN {<<n, SuffixHours(t[Len(t)])>> : n \in LiteralValues(t, 1, Len(t) - 1)}
    ELSE {}

\* C9 (as amended): parse_lookback returns n * unit milliseconds (h = 3,600,000,
\* d = 24 h, w = 7 d, m = 30 d) exactly for the tokens that, once surrounding
\* whitespace is dropped and letters are lower-cased, are text int() accepts
\* followed by h, d, w or m; every other token gives None.
C9_ParseLookback ==
    pc = "parse_returned" =>
        /\ \A r \in Readings(token) : lb_ms = Some(MsOfHours(r[1], r[2]))
        /\ Readings(token) = {} => lb_ms = None

\* C9 witness: "12w" has been parsed to 7,257,600,000 ms.
C9_Witness ==
    /\ pc = "parse_returned"
    /\ token = <<"1", "2", "w">>
    /\ lb_ms = Some(Big(1, 72576, 0))

\* C9 as stated: only an integer directly followed by lower-case h, d, w or m
\* is accepted, every other token gives None.
C9_Original ==
    pc = "parse_returned" =>
        /\ \A r \in StrictReadings(token) : lb_ms = Some(MsOfHours(r[1], r[2]))
        /\ StrictReadings(token) = {} => lb_ms = None

(***************************************************************************)
(* Scenario: one call of _fetch_one.                                       *)
(***************************************************************************)
Quotes == {<<Float(1), Float(1)>>, <<Float(2), Float(2)>>}   \* close, volume
RawCandles == {Candle(t, q[1], q[2]) : t \in Timestamps, q \in Quotes}
RawLists(n) == UNION {[1..m -> RawCandles] : m \in 0..n}
Failures == {[kind |-> "unknown_id"], [kind |-> "ctor_raises"],
             [kind |-> "fetch_raises"]}
Rows(raw, ok) == [kind |-> "rows", rows |-> raw, markets_loaded |-> ok]
MarketTypes == {"spot", "futures"}

InitFetch ==
    /\ pc = "fetch_called"
    /\ ohlcv \in Failures \cup {Rows(raw, ok) : raw \in RawLists(MaxRaw), ok \in BOOLEAN}
    /\ mtypes \in {<<m>> : m \in MarketTypes}
    /\ fetched = None
    /\ ParseIdle /\ AggIdle /\ CompareIdle /\ since = 0
    /\ status = <<>> /\ results = <<>> /\ out = None

FetchOne ==
    /\ pc = "fetch_called"
    /\ fetched' \in FetchOneReturns(ohlcv, mtypes[1])
    /\ pc' = "fetch_returned"
    /\ UNCHANGED <<ohlcv, parseVars, aggVars, since, multiVars, compareVars>>

NextFetch == FetchOne
SpecFetch == InitFetch /\ [][NextFetch]_vars

StrictlyIncreasing(f) ==
    \A i \in 1..(Len(f.rows) - 1) : f.rows[i].ts < f.rows[i + 1].ts

\* the candle that appears last in raw among those stamped t
LastSeen(raw, t) ==
    raw[CHOOSE i \in 1..Len(raw) :
            /\ raw[i].timestamp = t
            /\ \A j \in (i + 1)..Len(raw) : raw[j].timestamp # t]

\* C6: for every non-empty raw candle list, the series _fetch_one returns has
\* strictly increasing, unique timestamps, one row per timestamp of the raw
\* list, each holding the candle that came last in the raw list for it.
C6_DedupKeepsLast ==
    (pc = "fetch_returned" /\ ohlcv.kind = "rows" /\ Len(ohlcv.rows) > 0) =>
        /\ fetched.tag = "Some"
        /\ LET f == fetched.val[1]
           IN /\ StrictlyIncreasing(f)
              /\ IndexSet(f) = {to_datetime(ohlcv.rows[i].timestamp) : i \in 1..Len(ohlcv.rows)}
              /\ \A i \in 1..Len(ohlcv.rows) :
                    LET c == LastSeen(ohlcv.rows, ohlcv.rows[i].timestamp)
                        r == RowAt(f, to_datetime(c.timestamp))
                    IN r.close = c.close /\ r.volume = c.volume

(***************************************************************************)
(* Scenario: one call of _aggregate_same_market on the frames that lines   *)
(* 42-43 build: non-empty, index strictly increasing, two columns.         *)
(***************************************************************************)
AggTimestamps == {0, 1}
AggQuotes == Quotes \cup {<<NaN, Float(1)>>}

\* the frame of one source: a quote at each timestamp of T
SourceFrames(m, stamps, quotes) ==
    UNION {{Frame({PriceCol(m), VolCol(m)},
                  [j \in 1..Cardinality(T) |->
                      ("ts" :> to_datetime(SortedSeqOf(T)[j]))
                        @@ (PriceCol(m) :> q[SortedSeqOf(T)[j]][1])
                        @@ (VolCol(m) :> q[SortedSeqOf(T)[j]][2])]) :
            q \in [T -> quotes]} : T \in (SUBSET stamps) \ {{}}}

InitAgg ==
    /\ pc = "agg_called"
    /\ mtypes \in {<<m>> : m \in MarketTypes}
    /\ \E n \in 1..MaxSources :
          dfs \in [1..n -> SourceFrames(mtypes[1], AggTimestamps, AggQuotes)]
    /\ agg = None
    /\ ParseIdle /\ FetchIdle /\ CompareIdle /\ since = 0
    /\ status = <<>> /\ results = <<>> /\ out = None

Aggregate ==
    /\ pc = "agg_called"
    /\ agg' = _aggregate_same_market(dfs, PriceCol(mtypes[1]), VolCol(mtypes[1]))
    /\ pc' = "agg_returned"
    /\ UNCHANGED <<dfs, parseVars, fetchVars, since, multiVars, compareVars>>

NextAgg == Aggregate
SpecAgg == InitAgg /\ [][NextAgg]_vars

\* the sources with a close at t
Present(frames, t, c) == {i \in 1..Len(frames) : NotNa(Cell(frames[i], t, c))}

\* the value of rank r (from 0) among the closes at t of the sources in P
Ranked(frames, t, c, P, r) ==
    LET V == {Cell(frames[i], t, c) : i \in P}
    IN CHOOSE v \in V :
          /\ Cardinality({i \in P : RLess(Cell(frames[i], t, c), v)}) <= r
          /\ Cardinality({i \in P : RLeq(Cell(frames[i], t, c), v)}) > r

\* middle value for an odd count, mean of the two middle values for an even one
MedianOfPresent(frames, t, c) ==
    LET P == Present(frames, t, c)
        n == Cardinality(P)
    IN IF n = 0 THEN NaN
       ELSE RDiv(RAdd(Ranked(frames, t, c, P, (n - 1) \div 2),
                      Ranked(frames, t, c, P, n \div 2)), Float(2))

RECURSIVE TotalOf(_, _, _, _)
TotalOf(frames, t, c, P) ==
    IF P = {} THEN Zero
    ELSE LET i == CHOOSE j \in P : TRUE
         IN RAdd(Cell(frames[i], t, c), TotalOf(frames, t, c, P \ {i}))

\* C7: _aggregate_same_market returns one row per timestamp of the union of
\* the inputs' timestamps; its price is the median of the closes of exactly
\* the series that have a value there, its volume the sum of the volumes
\* present.
C7_MedianAndSum ==
    pc = "agg_returned" =>
        LET pcol == PriceCol(mtypes[1])
            vcol == VolCol(mtypes[1])
        IN /\ agg.cols = {pcol, vcol}
           /\ StrictlyIncreasing(agg)
           /\ IndexSet(agg) = UNION {IndexSet(dfs[i]) : i \in 1..Len(dfs)}
           /\ \A j \in 1..Len(agg.rows) :
                 LET t == agg.rows[j].ts
                 IN /\ agg.rows[j][pcol] = MedianOfPresent(dfs, t, pcol)
                    /\ agg.rows[j][vcol] = TotalOf(dfs, t, vcol, Present(dfs, t, vcol))

\* C7 witness: three sources, one without a row at a timestamp where the
\* other two disagree, so the price there is the mean of two closes.
C7_Witness ==
    /\ pc = "agg_returned"
    /\ Len(dfs) = 3
    /\ \E j \in 1..Len(agg.rows) :
          /\ Cardinality(Present(dfs, agg.rows[j].ts, PriceCol(mtypes[1]))) = 2
          /\ \E i \in 1..3 : agg.rows[j].ts \notin IndexSet(dfs[i])
          /\ agg.rows[j][PriceCol(mtypes[1])] = <<3, 2>>
          /\ agg.rows[j][VolCol(mtypes[1])] = Float(3)

(***************************************************************************)
(* Scenario: one call of fetch_ohlcv_multi.  One task per exchange, spot   *)
(* exchanges first; the tasks finish in any order, or one never does.      *)
(***************************************************************************)
SinceVals == {0, 1}
TaskLists == {[i \in 1..(a + b) |-> IF i <= a THEN "spot" ELSE "futures"] :
                 a \in 0..MaxTasks, b \in 0..MaxTasks} 
TaskTimestamps == {0, 1}
TaskCandles == {Candle(t, q[1], q[2]) : t \in TaskTimestamps, q \in Quotes}
Behaviours ==
    Failures \cup {Rows(raw, TRUE) :
                      raw \in UNION {[1..m -> TaskCandles] : m \in 0..MaxCandles}}
\* everything a task of each market type may hand to gather
SpotReturns == UNION {FetchOneReturns(b, "spot") : b \in Behaviours}
FuturesReturns == UNION {FetchOneReturns(b, "futures") : b \in Behaviours}
TaskResults(m) == IF m = "spot" THEN SpotReturns ELSE FuturesReturns
Pending == [tag |-> "Pending"]

AllDone(st) == \A i \in 1..Len(st) : st[i] = "done"

\* the await of line 36 resumes once every task has finished
GatherReady(st) == AllDone(st)

Init ==
    /\ pc = "gathering"
    /\ since \in SinceVals
    /\ mtypes \in {m \in TaskLists : Len(m) <= MaxTasks}
    /\ status = [i \in 1..Len(mtypes) |-> "running"]
    /\ results = [i \in 1..Len(mtypes) |-> Pending]
    /\ out = None
    /\ ParseIdle /\ FetchIdle /\ AggIdle /\ CompareIdle

\* task i finishes: its _fetch_one returns or raises
TaskReturns(i) ==
    /\ pc = "gathering"
    /\ status[i] = "running"
    /\ \E r \in TaskResults(mtypes[i]) : results' = [results EXCEPT ![i] = r]
    /\ status' = [status EXCEPT ![i] = "done"]
    /\ UNCHANGED <<pc, since, mtypes, out, parseVars, fetchVars, aggVars, compareVars>>

\* the exchange call of task i never returns: nothing bounds the
\* run_in_executor await of lines 71 and 84
TaskHangs(i) ==
    /\ pc = "gathering"
    /\ status[i] = "running"
    /\ status' = [status EXCEPT ![i] = "hung"]
    /\ UNCHANGED <<pc, since, mtypes, results, out, parseVars, fetchVars, aggVars,
                   compareVars>>

Gather ==
    /\ pc = "gathering"
    /\ GatherReady(status)
    /\ out' = fetch_ohlcv_multi(results, since)
    /\ pc' = "returned"
    /\ UNCHANGED <<since, mtypes, status, results, parseVars, fetchVars, aggVars,
                   compareVars>>

Next ==
    \/ \E i \in 1..Len(mtypes) : TaskReturns(i)
    \/ \E i \in 1..Len(mtypes) : TaskHangs(i)
    \/ Gather

Spec == Init /\ [][Next]_vars

\* The event loop resumes every task whose exchange call has come back.  A
\* hung task keeps Gather disabled for good, so what is asked of Gather's
\* scheduling does not matter to a behaviour with a hung task.
FairSpec == Spec /\ WF_vars(\E i \in 1..Len(mtypes) : TaskReturns(i))

Succeeded(r) == r.tag = "Some"
Sources(m) == {i \in 1..Len(results) : Succeeded(results[i]) /\ results[i].val[2] = m}
\* the timestamps source i reports at or after since
InWindow(i) == {t \in IndexSet(results[i].val[1]) : t >= to_datetime(since)}
IsFrame(f) == f # Raised /\ f # None

\* C1 (as amended): whatever each exchange did, fetch_ohlcv_multi returns a
\* frame and does not raise; every successful source is used (its market's
\* columns are there, and a row for each of its timestamps at or after since);
\* the frame is empty exactly when no successful source has a candle at or
\* after since, in particular when no source succeeded.
C1_PartialResults ==
    pc = "returned" =>
        /\ IsFrame(out)
        /\ \A m \in MarketTypes : \A i \in Sources(m) :
              /\ {PriceCol(m), VolCol(m)} \subseteq out.cols
              /\ InWindow(i) \subseteq IndexSet(out)
        /\ IsEmpty(out) <=>
              \A m \in MarketTypes : \A i \in Sources(m) : InWindow(i) = {}

\* C1 witness: three spot exchanges, one raised, one gave nothing, one
\* succeeded, and the returned frame is not empty.
C1_Witness ==
    /\ pc = "returned"
    /\ mtypes = <<"spot", "spot", "spot">>
    /\ \E i, j, l \in 1..3 :
          /\ results[i] = Raised /\ results[j] = None /\ Succeeded(results[l])
    /\ IsFrame(out) /\ ~IsEmpty(out)

\* C1 as stated: the result is empty exactly when no source of either
\* market type succeeded.
C1_Original ==
    pc = "returned" =>
        /\ IsFrame(out)
        /\ IsEmpty(out) <=> \A m \in MarketTypes : Sources(m) = {}

Orders(n) == {p \in [1..n -> 1..n] : \A i, j \in 1..n : i # j => p[i] # p[j]}
\* C5: with the tasks' results fixed, the returned frame is the same in
\* whatever order the results are collected (the frame built from the results
\* taken in any other order, partitioned by lines 37-43 and assembled by lines
\* 44-57, equals it), and its rows are in ascending timestamp order.
C5_OrderIndependent ==
    (pc = "returned" /\ IsFrame(out)) =>
        /\ StrictlyIncreasing(out)
        /\ \A kept \in {Partition([i \in 1..Len(results) |-> results[p[i]]]) :
                             p \in Orders(Len(results))} :
              Assemble(kept[1], kept[2], since) = out

\* C5 witness: three sources answered, two of them of one market with
\* different closes at a timestamp that is in the returned frame.
C5_Witness ==
    /\ pc = "returned" /\ IsFrame(out)
    /\ \A i \in 1..Len(results) : Succeeded(results[i])
    /\ Len(results) = 3
    /\ \E m \in MarketTypes : \E i, j \in Sources(m) : \E t \in IndexSet(out) :
          /\ i # j
          /\ t \in IndexSet(results[i].val[1]) /\ t \in IndexSet(results[j].val[1])
          /\ RowAt(results[i].val[1], t).close # RowAt(results[j].val[1], t).close

\* the frames the successful sources of market m returned, in task order
Returned(m) ==
    LET Of(r) == Succeeded(r) /\ r.val[2] = m
        kept == SelectSeq(results, Of)
    IN [i \in 1..Len(kept) |-> kept[i].val[1]]

\* the timestamps at or before t where some source of m has a close
ObservedUpTo(m, t) ==
    {u \in UNION {IndexSet(Returned(m)[i]) : i \in 1..Len(Returned(m))} :
        u <= t /\ Present(Returned(m), u, "close") # {}}

\* the price of market m most recently observed at or before t
LastObserved(m, t) ==
    IF ObservedUpTo(m, t) = {} THEN NaN
    ELSE LET u == CHOOSE x \in ObservedUpTo(m, t) : \A y \in ObservedUpTo(m, t) : y <= x
         IN MedianOfPresent(Returned(m), u, "close")

\* C10: every returned row is at or after since; close_spot and close_fut at
\* a row are that side's most recent observation at or before the row, also
\* one from before since whose own row was dropped; a price is undefined only
\* when the side has no observation at or before the row; forward-filling
\* the result again changes nothing.
C10_ForwardFill ==
    (pc = "returned" /\ IsFrame(out)) =>
        /\ \A j \in 1..Len(out.rows) :
              /\ out.rows[j].ts >= to_datetime(since)
              /\ \A m \in MarketTypes :
                    PriceCol(m) \in out.cols =>
                        out.rows[j][PriceCol(m)] = LastObserved(m, out.rows[j].ts)
        /\ Ffill(Ffill(out, "close_spot"), "close_fut") = out

\* C10 witness: a returned row carries a price of a side whose only
\* observations are from before since.
C10_Witness ==
    /\ pc = "returned" /\ IsFrame(out)
    /\ \E j \in 1..Len(out.rows) : \E m \in MarketTypes :
          /\ PriceCol(m) \in out.cols
          /\ NotNa(out.rows[j][PriceCol(m)])
          /\ Sources(m) # {}
          /\ \A i \in Sources(m) : InWindow(i) = {}

AnyHung == \E i \in 1..Len(status) : status[i] = "hung"

\* C3: a fetch that never returns is eventually given up, and
\* fetch_ohlcv_multi eventually returns with the sources that answered.
C3_HungFetchBounded == AnyHung ~> (pc = "returned")

(***************************************************************************)
(* Scenario: one /compare request with its tickers argument, one spot and  *)
(* one futures exchange (the defaults of bot.py 16-17).  The symbols are   *)
(* fetched one after the other; since is the same instant, in candle       *)
(* units, for every symbol of the request.                                 *)
(***************************************************************************)
Symbols == <<"BTC/USDT", "ETH/USDT", "SOL/USDT", "XRP/USDT">>
CompareQuotes == Quotes \cup {<<Zero, Float(1)>>}
CompareCandles == {Candle(t, q[1], q[2]) : t \in TaskTimestamps, q \in CompareQuotes}
CompareBehaviours ==
    Failures \cup {Rows(raw, TRUE) :
                      raw \in UNION {[1..m -> CompareCandles] : m \in 0..MaxCandles}}
CompareSpot == UNION {FetchOneReturns(b, "spot") : b \in CompareBehaviours}
CompareFutures == UNION {FetchOneReturns(b, "futures") : b \in CompareBehaviours}

Reply(kind, sym) == [kind |-> kind, sym |-> sym]

InitCompare ==
    /\ pc = "compare_called"
    /\ tickers \in {SubSeq(Symbols, 1, n) : n \in 0..MaxSymbols}
    /\ timeframe \in {"1h", "2h"}
    /\ token \in {<<"1", "d">>, <<"2", "x">>}
    /\ since \in SinceVals
    /\ mtypes = <<"spot", "futures">>
    /\ lb_ms = None /\ k = 0 /\ df = None /\ combined = <<>> /\ csv_buf = <<>>
    /\ replies = <<>> /\ delivered = None
    /\ FetchIdle /\ AggIdle /\ status = <<>> /\ results = <<>> /\ out = None

\* lines 56-67: the parameters are checked before anything is fetched
CompareStart ==
    /\ pc = "compare_called"
    /\ IF timeframe \notin supported_timeframes
       THEN /\ replies' = <<Reply("unsupported timeframe", "")>>
            /\ pc' = "compare_done"
            /\ UNCHANGED lb_ms
       ELSE /\ lb_ms' = parse_lookback(token)
            /\ IF lb_ms' = None
               THEN /\ replies' = <<Reply("bad lookback", "")>>
                    /\ pc' = "compare_done"
               ELSE /\ replies' = <<Reply("collecting", "")>>
                    /\ pc' = "compare_loop"
    /\ UNCHANGED <<token, fetchVars, aggVars, since, multiVars, tickers, timeframe, k,
                   df, combined, csv_buf, delivered>>

\* lines 72-84 for the next symbol; an exception leaves the loop for the
\* except clause of lines 92-93
CompareSymbol ==
    /\ pc = "compare_loop"
    /\ k < Len(tickers)
    /\ k' = k + 1
    /\ \E r1 \in CompareSpot, r2 \in CompareFutures :
          /\ results' = <<r1, r2>>
          /\ out' = fetch_ohlcv_multi(results', since)
    /\ IF out' = Raised
       THEN /\ replies' = Append(replies, Reply("error", ""))
            /\ pc' = "compare_done"
            /\ UNCHANGED <<df, combined, csv_buf>>
       ELSE IF IsEmpty(out')
       THEN /\ replies' = Append(replies, Reply("no data", tickers[k']))
            /\ df' = out'
            /\ UNCHANGED <<pc, combined, csv_buf>>
       ELSE IF VolumeTotalFaults(Indexed(out'))
       THEN /\ df' = Indexed(out')
            /\ replies' = Append(replies, Reply("error", ""))
            /\ pc' = "compare_done"
            /\ UNCHANGED <<combined, csv_buf>>
       ELSE /\ df' = VolumeTotal(Indexed(out'))
            /\ combined' = (tickers[k'] :> df') @@ combined
            /\ csv_buf' = Append(csv_buf, tickers[k'])
            /\ UNCHANGED <<pc, replies>>
    /\ UNCHANGED <<parseVars, fetchVars, aggVars, since, mtypes, status, tickers,
                   timeframe, delivered>>

\* lines 85-91, after the last symbol
CompareDeliver ==
    /\ pc = "compare_loop"
    /\ k = Len(tickers)
    /\ IF DOMAIN combined = {}
       THEN /\ replies' = Append(replies, Reply("nothing collected", ""))
            /\ UNCHANGED delivered
       ELSE /\ delivered' = Some([photo |-> render_chart(combined), document |-> csv_buf])
            /\ replies' = replies \o <<Reply("photo", ""), Reply("document", "")>>
    /\ pc' = "compare_done"
    /\ UNCHANGED <<parseVars, fetchVars, aggVars, since, multiVars, tickers, timeframe,
                   k, df, combined, csv_buf>>

NextCompare == CompareStart \/ CompareSymbol \/ CompareDeliver
SpecCompare == InitCompare /\ [][NextCompare]_vars

\* a request for one symbol whose parameters pass the checks
InitOneSymbol ==
    /\ InitCompare
    /\ Len(tickers) = 1
    /\ timeframe \in supported_timeframes
    /\ parse_lookback(token) # None

SpecOneSymbol == InitOneSymbol /\ [][NextCompare]_vars

\* the loop has post-processed a symbol's frame up to the index columns
IndexComputed == pc \in {"compare_loop", "compare_done"} /\ k > 0 /\ ~IsEmpty(out)

\* index(t) = close(t) / c0 * 100, with an undefined close giving an
\* undefined index
IsIndexOf(x, close, c0) ==
    IF IsNaN(close) THEN IsNaN(x)
    ELSE NotNa(x) /\ RMul(x, c0) = RMul(close, Float(100))

\* the index column of side c of frame f is close / c0 * 100 at every row,
\* c0 being the first non-missing close of side c in the frame base
IndexedOn(f, c, base) ==
    IF c \in base.cols /\ AnyNotNa(base, c)
    THEN /\ IdxCol(c) \in f.cols
         /\ \A j \in 1..Len(f.rows) :
               IsIndexOf(f.rows[j][IdxCol(c)], f.rows[j][c], FirstNotNa(base, c))
    ELSE IdxCol(c) \notin f.cols

\* C8 (as amended): for each side with a non-missing close in the frame
\* fetch_ohlcv_multi returned (the rows at or after since), the index column
\* is close(t) / c0 * 100 at every row, c0 being the first non-missing close
\* of that side in that returned frame, so the row holding c0 has index 100;
\* when c0 is zero the index column is undefined at every row; a side with no
\* non-missing close has no index column.
C8_IndexRebased ==
    IndexComputed =>
        \A c \in {"close_spot", "close_fut"} :
            IF c \in out.cols /\ AnyNotNa(out, c) /\ FirstNotNa(out, c) = Zero
            THEN /\ IdxCol(c) \in df.cols
                 /\ \A j \in 1..Len(df.rows) : IsNaN(df.rows[j][IdxCol(c)])
            ELSE /\ IndexedOn(df, c, out)
                 /\ (IdxCol(c) \in df.cols =>
                        \E j \in 1..Len(df.rows) :
                            /\ df.rows[j][c] = FirstNotNa(out, c)
                            /\ df.rows[j][IdxCol(c)] = Float(100))

\* C8 witness: a side whose first close before since differs from its first
\* close at or after since has been indexed.
C8_Witness ==
    /\ IndexComputed
    /\ "close_spot_idx" \in df.cols
    /\ FirstNotNa(out, "close_spot") # Zero
    /\ \E full \in {Combine(results, 0)} :
           FirstNotNa(full, "close_spot") # FirstNotNa(out, "close_spot")
    /\ \E j \in 1..Len(df.rows) :
           /\ df.rows[j]["close_spot"] = FirstNotNa(out, "close_spot")
           /\ df.rows[j]["close_spot_idx"] = Float(100)

\* C8 as stated: c0 is the first non-missing close of the side in the joined,
\* forward-filled table before its rows are restricted to the window (a side
\* whose c0 is zero, where the quotient is undefined, is left aside).
C8_Original ==
    IndexComputed =>
        \A full \in {Combine(results, 0)} :
            \A c \in {"close_spot", "close_fut"} :
                (c \in full.cols /\ AnyNotNa(full, c) /\ FirstNotNa(full, c) = Zero)
                    \/ IndexedOn(df, c, full)

\* the volume of side c at a row, a missing column or cell counting as zero
VolumeOr0(row, c) ==
    IF c \in DOMAIN row /\ NotNa(row[c]) THEN row[c] ELSE Zero

\* C2: a symbol with a usable source is handed to the presentation step with
\* volume_total = volume_spot + volume_fut at every row, a missing side
\* counting as zero, also when one market type has no usable source at all;
\* the computation does not fault.
C2_VolumeTotal ==
    (pc \in {"compare_loop", "compare_done"} /\ k > 0 /\ ~IsEmpty(out)) =>
        /\ tickers[k] \in DOMAIN combined
        /\ \A j \in 1..Len(combined[tickers[k]].rows) :
              LET row == combined[tickers[k]].rows[j]
              IN /\ "volume_total" \in DOMAIN row
                 /\ row["volume_total"] =
                       RAdd(VolumeOr0(row, "volume_spot"), VolumeOr0(row, "volume_fut"))

\* the request passed the parameter checks and the handler has finished
Finished == pc = "compare_done" /\ replies[1].kind = "collecting"

\* C4: a symbol without data, or whose processing fails, is reported alone:
\* every symbol of the request is processed, and every symbol that was
\* post-processed into combined is in the delivered chart and export.
C4_PerSymbolContainment ==
    Finished =>
        /\ k = Len(tickers)
        /\ \A sym \in DOMAIN combined :
              /\ delivered # None
              /\ sym \in delivered.val.photo
              /\ \E i \in 1..Len(delivered.val.document) : delivered.val.document[i] = sym
====
